---------------------------- MODULE Spec2Model ----------------------------
(***************************************************************************)
(* Adapter / dispatch core of the sales-intelligence MCP server:           *)
(*   - handleApiError and truncateResponse (services/error-handler.ts)     *)
(*   - the Gong, ZoomInfo, Clay and LinkedIn clients (services/*-client)   *)
(*   - the tool handlers registered by tools/*-tools and index.ts          *)
(*                                                                         *)
(* Optional strings (process.env values, fields of a vendor body) are      *)
(* sequences of length at most one: << >> is undefined, <<"">> the empty   *)
(* string.  A text is a sequence of pieces, each a slice of a named        *)
(* source string, so that substring and concatenation are computed and     *)
(* lengths are those of the JavaScript strings (UTF-16 code units).        *)
(***************************************************************************)
EXTENDS Integers, Sequences, FiniteSets, TLC

VARIABLES
    env,          \* process.env: variable name -> optional string
    variant,      \* which linkedin-tools build is registered
    gongClient,   \* gong-client.ts `client`: 0 = null, n = n-th instance built
    clayClient,   \* clay-client.ts `client`
    zoomClient,   \* zoominfo-client.ts `client`
    interceptors, \* request interceptors registered on ZoomInfo clients
    jwtToken,     \* zoominfo-client.ts `jwtToken`: 0 = null / empty
    tokenExpiry,  \* zoominfo-client.ts `tokenExpiry` (ms)
    now,          \* Date.now() (ms)
    issued,       \* tokens the ZoomInfo vendor issued: id -> time of issue
    inv,          \* slot -> the invocation suspended at a network await
    ret,          \* the envelope the last step returned, NoRet if it returned none
    ticks,        \* advances of the clock so far
    thrown,       \* handleApiError: argument `error`
    service,      \* handleApiError: argument `service`
    message,      \* handleApiError: result
    text,         \* truncateResponse: argument `text`
    limit,        \* truncateResponse: argument `limit`
    output        \* truncateResponse: result

dispatchVars ==
    <<env, variant, gongClient, clayClient, zoomClient, interceptors,
      jwtToken, tokenExpiry, now, issued, inv, ret, ticks>>
errVars == <<thrown, service, message>>
truncVars == <<text, limit, output>>
vars == <<dispatchVars, errVars, truncVars>>

-----------------------------------------------------------------------------
(* Program constants                                                       *)

CHARACTER_LIMIT == 25000
API_TIMEOUT == 30000
TRUNCATE_RESERVE == 200
NOTICE_HEAD_LEN == 29
NOTICE_TAIL_LEN == 53
TOKEN_REFRESH_MS == 55 * 60 * 1000
\* "JWT tokens are valid for 60 minutes"
JWT_VALIDITY_MS == 60 * 60 * 1000

(* Bounds of the model                                                     *)
MaxTicks == 3

-----------------------------------------------------------------------------
(* JavaScript values                                                       *)

UNDEFINED == << >>
Str(s) == <<s>>
\* !v for an optional string: undefined and "" are both falsy
Truthy(v) == v # UNDEFINED /\ v[1] # ""
\* a || b on optional strings
OrElse(a, b) == IF Truthy(a) THEN a ELSE b

DigitChar(d) == <<"0", "1", "2", "3", "4", "5", "6", "7", "8", "9">>[d + 1]

RECURSIVE ToDecimal(_)
\* String(n) for n >= 0: the decimal digits, most significant first
ToDecimal(n) ==
    IF n < 10 THEN <<DigitChar(n)>>
    ELSE Append(ToDecimal(n \div 10), DigitChar(n % 10))

-----------------------------------------------------------------------------
(* Texts                                                                   *)

Piece(src, from, to) == [src |-> src, from |-> from, to |-> to]
PieceLen(p) == p.to - p.from

RECURSIVE TextLen(_)
TextLen(t) == IF t = << >> THEN 0 ELSE PieceLen(Head(t)) + TextLen(Tail(t))

RECURSIVE Prefix(_, _)
\* the first k characters of t (all of t when k >= its length)
Prefix(t, k) ==
    IF t = << >> \/ k <= 0 THEN << >>
    ELSE IF PieceLen(Head(t)) <= k
         THEN <<Head(t)>> \o Prefix(Tail(t), k - PieceLen(Head(t)))
         ELSE <<Piece(Head(t).src, Head(t).from, Head(t).from + k)>>

\* String.prototype.substring(0, end): a negative end counts as 0
Substring0(t, end) == Prefix(t, IF end < 0 THEN 0 ELSE end)

\* a text of n characters of rendered vendor data
Rendered(n) == IF n = 0 THEN << >> ELSE <<Piece(<<"rendered">>, 0, n)>>

NoticeHead == Piece(<<"notice_head">>, 0, NOTICE_HEAD_LEN)
NoticeTail == Piece(<<"notice_tail">>, 0, NOTICE_TAIL_LEN)
Numeral(n) == Piece(ToDecimal(n), 0, Len(ToDecimal(n)))
Notice(n) == <<NoticeHead, Numeral(n), NoticeTail>>

MutTruncateNoReserve(t, lim) ==
    IF TextLen(t) <= lim THEN t
    ELSE Substring0(t, lim) \o Notice(TextLen(t))

truncateResponse(t, lim) ==
    IF TextLen(t) <= lim THEN t
    ELSE Substring0(t, lim - TRUNCATE_RESERVE) \o Notice(TextLen(t))

ContainsPiece(t, p) == \E i \in 1..Len(t) : t[i] = p

-----------------------------------------------------------------------------
(* handleApiError                                                          *)

\* A thrown value.  axios: instanceof AxiosError; isError: instanceof Error;
\* response: << >> or <<[status, data]>> with data the optional fields
\* `message` and `error` of the vendor body; code: error.code;
\* msg: error.message.
\* error.config of a value axios rejected with: the request it reports, with
\* the credential header and the body the caller gave it
NoConfig == [authorization |-> "", data |-> ""]

Thrown(axios, isError, response, code, msg) ==
    [axios |-> axios, isError |-> isError, response |-> response,
     code |-> code, msg |-> msg, config |-> NoConfig]
Response(status, dataMessage, dataError) ==
    <<[status |-> status, message |-> dataMessage, error |-> dataError]>>

\* error.response.data?.message || error.response.data?.error || ""
VendorMessage(r) == OrElse(r.message, OrElse(r.error, Str("")))[1]

MutAuthAsPermission(svc) ==
    <<svc, " Error: ", "Permission denied",
      ". Your API key may lack the required scope for this operation.">>

\* case 401
AuthMessage(svc) ==
    <<svc, " Error: ", "Authentication failed", ". Check your ", svc,
      " API credentials in environment variables.">>

MutTransientWithout503 == {500, 502}

\* case 500: case 502: case 503:
TransientStatuses == {500, 502, 503}

StatusMessage(svc, status, vmsg) ==
    CASE status = 400 ->
           <<svc, " Error: ", "Bad request", ". ",
             IF vmsg # "" THEN vmsg ELSE "Check your parameters and try again.">>
      [] status = 401 -> AuthMessage(svc)
      [] status = 403 ->
           <<svc, " Error: ", "Permission denied",
             ". Your API key may lack the required scope for this operation.">>
      [] status = 404 ->
           <<svc, " Error: ", "Resource not found", ". ",
             IF vmsg # "" THEN vmsg ELSE "Verify the ID or query and try again.">>
      [] status = 429 ->
           <<svc, " Error: ", "Rate limit", " exceeded. Please wait before making more requests.">>
      [] status \in TransientStatuses ->
           <<svc, " Error: ", "Service ", "temporarily unavailable", " (HTTP ",
             ToString(status), "). Please try again in a few minutes.">>
      [] OTHER ->
           <<svc, " Error: ", "API request failed with HTTP ", ToString(status),
             ". ", vmsg>>

MutTimeoutAsUnexpected(svc) == <<svc, " Error: ", "An unexpected error occurred.">>

TimeoutMessage(svc) ==
    <<svc, " Error: ", "Request ", "timed out",
      ". The service may be slow - try again or reduce your query scope.">>
RefusedMessage(svc) ==
    <<svc, " Error: ", "Connection refused", ". The ", "service may be down", ".">>

MutUnexpectedBare(svc) == <<"An unexpected error occurred.">>

\* the last return of handleApiError
UnexpectedMessage(svc) == <<svc, " Error: ", "An unexpected error occurred.">>

MutDropMessage(error, svc) ==
    IF error.axios /\ error.response # << >>
    THEN StatusMessage(svc, error.response[1].status, VendorMessage(error.response[1]))
    ELSE IF error.axios /\ error.code = "ECONNABORTED" THEN TimeoutMessage(svc)
    ELSE IF error.axios /\ error.code = "ECONNREFUSED" THEN RefusedMessage(svc)
    ELSE <<svc, " Error: ", "An unexpected error occurred.">>

MutTimeoutFirst(error, svc) ==
    IF error.axios /\ error.code = "ECONNABORTED" THEN TimeoutMessage(svc)
    ELSE IF error.axios /\ error.code = "ECONNREFUSED" THEN RefusedMessage(svc)
    ELSE IF error.axios /\ error.response # << >>
    THEN StatusMessage(svc, error.response[1].status, VendorMessage(error.response[1]))
    ELSE IF error.isError THEN <<svc, " Error: ", error.msg>>
    ELSE <<svc, " Error: ", "An unexpected error occurred.">>

MutEchoRequest(error, svc) ==
    IF error.axios
    THEN <<svc, " Error: ", error.msg, " Request: ",
           error.config.authorization, error.config.data>>
    ELSE IF error.isError THEN <<svc, " Error: ", error.msg>>
    ELSE <<svc, " Error: ", "An unexpected error occurred.">>

handleApiError(error, svc) ==
    IF error.axios /\ error.response # << >>
    THEN StatusMessage(svc, error.response[1].status, VendorMessage(error.response[1]))
    ELSE IF error.axios /\ error.code = "ECONNABORTED" THEN TimeoutMessage(svc)
    ELSE IF error.axios /\ error.code = "ECONNREFUSED" THEN RefusedMessage(svc)
    ELSE IF error.isError THEN <<svc, " Error: ", error.msg>>
    ELSE UnexpectedMessage(svc)

RECURSIVE Flat(_)
\* the string a sequence of fragments spells
Flat(m) == IF m = << >> THEN "" ELSE Head(m) \o Flat(Tail(m))
Contains(m, phrase) == \E i \in 1..Len(m) : m[i] = phrase

-----------------------------------------------------------------------------
(* Backends, credentials and tools                                         *)

Backends == {"Gong", "ZoomInfo", "Clay", "LinkedIn"}

EnvVars ==
    {"GONG_ACCESS_KEY", "GONG_ACCESS_KEY_SECRET", "ZOOMINFO_CLIENT_ID",
     "ZOOMINFO_PRIVATE_KEY", "CLAY_API_KEY", "LINKEDIN_ACCESS_TOKEN"}

MutGongConfiguredOnceBuilt ==
    gongClient # 0 \/ (Truthy(env["GONG_ACCESS_KEY"]) /\ Truthy(env["GONG_ACCESS_KEY_SECRET"]))

isGongConfigured ==
    Truthy(env["GONG_ACCESS_KEY"]) /\ Truthy(env["GONG_ACCESS_KEY_SECRET"])
MutZoomNeedsClientIdOnly == Truthy(env["ZOOMINFO_CLIENT_ID"])

isZoomInfoConfigured ==
    Truthy(env["ZOOMINFO_CLIENT_ID"]) /\ Truthy(env["ZOOMINFO_PRIVATE_KEY"])
MutClayNeedsGongSecret ==
    Truthy(env["CLAY_API_KEY"]) /\ Truthy(env["GONG_ACCESS_KEY_SECRET"])

isClayConfigured == Truthy(env["CLAY_API_KEY"])
isLinkedInConfigured == Truthy(env["LINKEDIN_ACCESS_TOKEN"])

\* the `throw new Error(...)` of each client's credential check
GongConfigText ==
    "Gong credentials not configured. Set GONG_ACCESS_KEY and GONG_ACCESS_KEY_SECRET environment variables."
ZoomInfoConfigText ==
    "ZoomInfo credentials not configured. Set ZOOMINFO_CLIENT_ID and ZOOMINFO_PRIVATE_KEY environment variables."
ClayConfigText ==
    "Clay credentials not configured. Set CLAY_API_KEY environment variable."
LinkedInClientConfigText ==
    "LinkedIn credentials not configured. Set LINKEDIN_ACCESS_TOKEN environment variable. "
    \o "Requires LinkedIn SNAP partner access or a LinkedIn Sales Navigator API subscription."
LinkedInFallbackConfigText ==
    "LinkedIn credentials not configured. Set LINKEDIN_ACCESS_TOKEN environment variable. "
    \o "Get a token from the LinkedIn Developer Portal (https://developer.linkedin.com/) - "
    \o "no SNAP partnership required."
ConfigError(txt) == Thrown(FALSE, TRUE, UNDEFINED, "", txt)

GongTools ==
    {"gong_search_calls", "gong_get_transcript", "gong_get_call_details",
     "gong_search_calls_by_participant", "gong_get_call_stats"}
ZoomInfoTools ==
    {"zoominfo_search_company", "zoominfo_search_contact",
     "zoominfo_get_org_chart", "zoominfo_get_tech_stack"}
ClayTools == {"clay_enrich_person", "clay_enrich_company", "clay_trigger_enrichment"}
LinkedInTools ==
    {"linkedin_search_leads", "linkedin_get_profile", "linkedin_search_companies"}
StatusTool == "sales_intel_status"
Tools == GongTools \cup ZoomInfoTools \cup ClayTools \cup LinkedInTools \cup {StatusTool}

\* the service name each handler's catch passes to handleApiError
BackendOf(tool) ==
    IF tool \in GongTools THEN "Gong"
    ELSE IF tool \in ZoomInfoTools THEN "ZoomInfo"
    ELSE IF tool \in ClayTools THEN "Clay"
    ELSE IF tool \in LinkedInTools THEN "LinkedIn"
    ELSE "Status"

isConfigured(b) ==
    CASE b = "Gong" -> isGongConfigured
      [] b = "ZoomInfo" -> isZoomInfoConfigured
      [] b = "Clay" -> isClayConfigured
      [] b = "LinkedIn" -> isLinkedInConfigured
      [] OTHER -> TRUE

ConfigTextOf(b) ==
    CASE b = "Gong" -> GongConfigText
      [] b = "ZoomInfo" -> ZoomInfoConfigText
      [] b = "Clay" -> ClayConfigText
      [] OTHER -> IF variant = "fallback" THEN LinkedInFallbackConfigText
                  ELSE LinkedInClientConfigText

-----------------------------------------------------------------------------
(* Input schemas (zod objects)                                             *)

\* the keys each schema declares
Declared(tool) ==
    CASE tool = "gong_search_calls" ->
           {"from_date", "to_date", "workspace_id", "cursor", "response_format"}
      [] tool \in {"gong_get_transcript", "gong_get_call_details"} ->
           {"call_id", "response_format"}
      [] tool = "gong_search_calls_by_participant" ->
           {"email", "from_date", "to_date", "response_format"}
      [] tool = "gong_get_call_stats" -> {"from_date", "to_date", "response_format"}
      [] tool = "zoominfo_search_company" ->
           {"company_name", "domain", "industry", "min_employees", "max_employees",
            "min_revenue", "country", "limit", "page", "response_format"}
      [] tool = "zoominfo_search_contact" ->
           {"first_name", "last_name", "email", "job_title", "management_level",
            "department", "company_name", "company_domain", "limit", "page",
            "response_format"}
      [] tool = "zoominfo_get_org_chart" -> {"company_id", "department", "response_format"}
      [] tool = "zoominfo_get_tech_stack" -> {"company_id", "domain", "response_format"}
      [] tool = "clay_enrich_person" ->
           {"email", "linkedin_url", "first_name", "last_name", "company_domain",
            "response_format"}
      [] tool = "clay_enrich_company" -> {"domain", "company_name", "response_format"}
      [] tool = "clay_trigger_enrichment" -> {"webhook_url", "data", "response_format"}
      [] tool = "linkedin_search_leads" ->
           {"keywords", "first_name", "last_name", "title", "company_name", "industry",
            "geography", "seniority", "limit", "offset", "response_format"}
      [] tool = "linkedin_get_profile" -> {"linkedin_url", "member_id", "response_format"}
      [] tool = "linkedin_search_companies" ->
           {"keywords", "company_name", "industry", "min_employees", "max_employees",
            "geography", "limit", "offset", "response_format"}
      [] OTHER -> {}

\* the keys that are neither .optional() nor .default(...)
Required(tool) ==
    CASE tool \in {"gong_search_calls", "gong_get_call_stats"} -> {"from_date", "to_date"}
      [] tool \in {"gong_get_transcript", "gong_get_call_details"} -> {"call_id"}
      [] tool = "gong_search_calls_by_participant" -> {"email", "from_date", "to_date"}
      [] tool = "zoominfo_get_org_chart" -> {"company_id"}
      [] tool = "clay_trigger_enrichment" -> {"webhook_url", "data"}
      [] OTHER -> {}

MutNoStrict(tool) == FALSE

\* the schema ends in .strict(); the status tool's inputSchema is the raw shape {}
Strict(tool) == tool # StatusTool

\* zod's parse of an argument object with the keys `fields`
SchemaAccepts(tool, fields) ==
    /\ Required(tool) \subseteq fields
    /\ Strict(tool) => fields \subseteq Declared(tool)

\* an argument object: its keys, its response_format and, for a linkedin_url,
\* whether it matches /linkedin\.com\/in\/([^/?]+)/
Input(fields, fmt, vanity) == [fields |-> fields, fmt |-> fmt, vanity |-> vanity]

UNDECLARED == "unknown_field"

\* the optional keys arguments are drawn from: those a handler tests before
\* its request, or one filter
Optional(tool) ==
    CASE tool = "zoominfo_get_tech_stack" -> {"company_id", "domain"}
      [] tool = "clay_enrich_person" -> {"email", "first_name", "last_name"}
      [] tool = "clay_enrich_company" -> {"domain", "company_name"}
      [] tool = "linkedin_get_profile" -> {"linkedin_url", "member_id"}
      [] tool \in {"linkedin_search_leads", "linkedin_search_companies"} ->
           {"keywords", "limit"}
      [] tool \in {"zoominfo_search_company", "zoominfo_search_contact"} ->
           {"company_name"}
      [] OTHER -> {}

\* argument objects with every required key, in both formats; with an
\* undeclared key added; and with one required key left out
Inputs(tool) ==
    {Input(Required(tool) \cup opt, fmt, v) :
        opt \in SUBSET Optional(tool), fmt \in {"markdown", "json"},
        v \in IF tool = "linkedin_get_profile" THEN BOOLEAN ELSE {TRUE}}
    \cup {Input(Required(tool) \cup opt \cup {UNDECLARED}, "markdown", TRUE) :
             opt \in {{}, Optional(tool)}}
    \cup {Input((Required(tool) \ {k}) \cup extra, "markdown", TRUE) :
             k \in Required(tool), extra \in {{}, {UNDECLARED}}}

-----------------------------------------------------------------------------
(* Tool handlers: the checks and the rendering around the awaited request  *)

Lit(str) == <<Piece(<<str>>, 0, Len(str))>>

LeadQueryKeys ==
    {"keywords", "first_name", "last_name", "title", "company_name", "seniority",
     "geography", "industry"}
CompanyQueryKeys == {"keywords", "company_name", "industry", "geography"}

\* the handler's own test of its arguments, made before any request
ArgCheck(tool, in) ==
    CASE tool = "zoominfo_get_tech_stack" ->
           "company_id" \in in.fields \/ "domain" \in in.fields
      [] tool = "clay_enrich_person" ->
           \/ "email" \in in.fields
           \/ "linkedin_url" \in in.fields
           \/ {"first_name", "last_name"} \subseteq in.fields
      [] tool = "clay_enrich_company" ->
           "domain" \in in.fields \/ "company_name" \in in.fields
      [] tool = "linkedin_get_profile" ->
           IF variant = "fallback"
           THEN "member_id" \in in.fields \/ "linkedin_url" \notin in.fields \/ in.vanity
           ELSE "linkedin_url" \in in.fields \/ "member_id" \in in.fields
      [] tool = "linkedin_search_leads" ->
           variant = "fallback" => in.fields \cap LeadQueryKeys # {}
      [] tool = "linkedin_search_companies" ->
           variant = "fallback" => in.fields \cap CompanyQueryKeys # {}
      [] OTHER -> TRUE

ArgCheckText(tool) ==
    CASE tool = "zoominfo_get_tech_stack" -> "Error: Provide either company_id or domain."
      [] tool = "clay_enrich_person" ->
           "Error: Provide at least email, linkedin_url, or first_name + last_name."
      [] tool = "clay_enrich_company" -> "Error: Provide either domain or company_name."
      [] tool = "linkedin_get_profile" ->
           IF variant = "fallback"
           THEN "Error: Could not extract a profile vanity name from the LinkedIn URL. "
                \o "Expected format: https://linkedin.com/in/username"
           ELSE "Error: Provide either linkedin_url or member_id."
      [] tool = "linkedin_search_leads" ->
           "Error: Provide at least one search criteria (keywords, name, title, company, etc.)."
      [] OTHER ->
           "Error: Provide at least one search criteria (keywords, company_name, industry, or geography)."

\* A vendor body conforms to the type the handler declares for it; its result
\* is "empty" (no items, the field is missing, or the Clay body is null) or
\* "data".  These handlers return a "nothing found" text for the first two.
MutNoEmptyCheckClay(tool) ==
    tool \notin {"gong_get_call_stats", "clay_trigger_enrichment", "clay_enrich_person",
                 "clay_enrich_company"}

HasEmptyCheck(tool) == tool \notin {"gong_get_call_stats", "clay_trigger_enrichment"}

EmptyText(tool) ==
    CASE tool = "gong_search_calls" -> "No calls found in the specified date range."
      [] tool = "gong_get_transcript" -> "No transcript available for call ."
      [] tool = "gong_get_call_details" -> "No details found for call ."
      [] tool = "gong_search_calls_by_participant" ->
           "No calls found with participant  in the specified date range."
      [] tool = "zoominfo_search_company" -> "No companies found matching your criteria."
      [] tool = "zoominfo_search_contact" -> "No contacts found matching your criteria."
      [] tool = "zoominfo_get_org_chart" -> "No org chart data found for company ."
      [] tool = "zoominfo_get_tech_stack" -> "No tech stack data available for this company."
      [] tool = "clay_enrich_person" -> "No enrichment data found for this person."
      [] tool = "clay_enrich_company" -> "No enrichment data found for this company."
      [] tool = "linkedin_search_leads" ->
           IF variant = "fallback"
           THEN "No leads found matching your criteria. Tip: Try broader keywords, "
                \o "or use ZoomInfo/Clay tools for deeper lead search."
           ELSE "No leads found matching your criteria."
      [] tool = "linkedin_get_profile" -> "No profile data found."
      [] OTHER -> "No companies found matching your criteria."

\* the markdown return path ends in truncateResponse(..., CHARACTER_LIMIT)
TruncatesMarkdown(tool) ==
    tool \in {"gong_search_calls", "gong_get_transcript", "gong_get_call_details",
              "gong_search_calls_by_participant", "zoominfo_search_company",
              "zoominfo_search_contact", "zoominfo_get_org_chart",
              "linkedin_search_leads", "linkedin_search_companies"}

\* the json return path: JSON.stringify(...) is returned as it is
TruncatesJson(tool) == FALSE

\* the text of the envelope for a rendering of n characters
RenderedText(tool, fmt, n) ==
    IF (fmt = "json" /\ TruncatesJson(tool)) \/ (fmt = "markdown" /\ TruncatesMarkdown(tool))
    THEN truncateResponse(Rendered(n), CHARACTER_LIMIT)
    ELSE Rendered(n)

-----------------------------------------------------------------------------
(* Invocations and envelopes                                               *)

Slots == {1, 2}

NoCheck == [done |-> FALSE, token |-> 0, expiry |-> 0, at |-> 0]

\* pc: "idle", "authWait" (the /authenticate exchange is in flight) or
\* "dataWait" (the tool's own request is in flight).  extra, lacking: whether
\* the arguments hold an undeclared key, lack a required one; target: the
\* backend whose client sends; sent: when the request in flight left; bearer: the token its Authorization header carries; check: the cache
\* as getToken found it.
IdleInv ==
    [pc |-> "idle", tool |-> "", fmt |-> "", extra |-> FALSE, lacking |-> FALSE,
     target |-> "", sent |-> 0, bearer |-> 0,
     authReqs |-> 0, dataReqs |-> 0, hookReqs |-> 0, hookAuth |-> FALSE,
     attempts |-> 0, check |-> NoCheck]

NoReport == [count |-> 0, total |-> 0, missing |-> {}]

\* The envelope { content: [{type: "text", text}], isError } a handler returned,
\* with what the invocation did.  msg: the text of an error envelope, as
\* fragments; text: the text of any other; handled: the value its catch gave
\* to handleApiError; stage: the await the handler returned from ("idle" when
\* it returned before its first).
NoRet ==
    [slot |-> 0, tool |-> "", fmt |-> "", extra |-> FALSE, lacking |-> FALSE,
     argsOk |-> TRUE, stage |-> "idle", isError |-> FALSE, kind |-> "none", msg |-> << >>,
     text |-> << >>, handled |-> << >>, target |-> "", authReqs |-> 0, dataReqs |-> 0,
     hookReqs |-> 0, hookAuth |-> FALSE, attempts |-> 0, bearer |-> 0,
     report |-> NoReport]

RetOf(i, tool, in) ==
    [NoRet EXCEPT !.slot = i, !.tool = tool, !.fmt = in.fmt,
                  !.extra = ~(in.fields \subseteq Declared(tool)),
                  !.lacking = ~(Required(tool) \subseteq in.fields)]

\* the counters of a suspended invocation carried into its envelope
RetFrom(i) ==
    [NoRet EXCEPT !.slot = i, !.tool = inv[i].tool, !.fmt = inv[i].fmt,
                  !.extra = inv[i].extra, !.lacking = inv[i].lacking,
                  !.target = inv[i].target, !.stage = inv[i].pc,
                  !.authReqs = inv[i].authReqs, !.dataReqs = inv[i].dataReqs,
                  !.hookReqs = inv[i].hookReqs, !.hookAuth = inv[i].hookAuth,
                  !.attempts = inv[i].attempts, !.bearer = inv[i].bearer]

MutCatchConvertsDirectly(r, error, svc) ==
    [r EXCEPT !.isError = TRUE, !.kind = "error",
              !.msg = IF error.axios THEN handleApiError(error, svc) ELSE <<error.msg>>,
              !.handled = IF error.axios THEN <<error>> ELSE << >>]

MutCatchAxiosOnly(r, error, svc) ==
    IF error.axios
    THEN [r EXCEPT !.isError = TRUE, !.kind = "error",
                   !.msg = handleApiError(error, svc), !.handled = <<error>>]
    ELSE [r EXCEPT !.kind = "uncaught", !.handled = <<error>>]

\* catch (error) { return { content: [... handleApiError(error, svc)], isError: true } }
Caught(r, error, svc) ==
    [r EXCEPT !.isError = TRUE, !.kind = "error",
              !.msg = handleApiError(error, svc), !.handled = <<error>>]

Returns(i, r) ==
    /\ ret' = r
    /\ inv' = [inv EXCEPT ![i] = IdleInv]

Suspends(i, rec) ==
    /\ inv' = [inv EXCEPT ![i] = rec]
    /\ ret' = NoRet

pureVars == <<errVars, truncVars>>

-----------------------------------------------------------------------------
(* Input validation and the handlers up to their first await               *)

\* registerTool's inputSchema: an argument object the schema does not accept
\* never reaches the handler
Reject(i, tool, in) ==
    /\ inv[i].pc = "idle"
    /\ ~SchemaAccepts(tool, in.fields)
    /\ Returns(i, [RetOf(i, tool, in) EXCEPT
                      !.isError = TRUE, !.kind = "rejected",
                      !.msg = <<"Input validation error">>])
    /\ UNCHANGED <<env, variant, gongClient, clayClient, zoomClient, interceptors,
                   jwtToken, tokenExpiry, now, issued, ticks, pureVars>>

\* the `if (!params...) return { ..., isError: true }` at the top of a handler
ArgFail(i, tool, in) ==
    /\ inv[i].pc = "idle"
    /\ tool # StatusTool
    /\ SchemaAccepts(tool, in.fields)
    /\ ~ArgCheck(tool, in)
    /\ Returns(i, [RetOf(i, tool, in) EXCEPT
                      !.argsOk = FALSE, !.isError = TRUE, !.kind = "argcheck",
                      !.msg = <<ArgCheckText(tool)>>])
    /\ UNCHANGED <<env, variant, gongClient, clayClient, zoomClient, interceptors,
                   jwtToken, tokenExpiry, now, issued, ticks, pureVars>>

\* the `services` array of the status handler, by name
Services == <<"Gong", "ZoomInfo", "Clay", "LinkedIn">>

MutCountServices(services) == Len(services)

RECURSIVE configuredCount(_)
\* for (const svc of services) { if (svc.configured) configuredCount++; }
configuredCount(services) ==
    IF services = << >> THEN 0
    ELSE (IF isConfigured(Head(services)) THEN 1 ELSE 0) + configuredCount(Tail(services))

\* sales_intel_status
StatusQuery(i, in) ==
    /\ inv[i].pc = "idle"
    /\ SchemaAccepts(StatusTool, in.fields)
    /\ Returns(i, [RetOf(i, StatusTool, in) EXCEPT
                      !.kind = "status",
                      !.text = Lit("# Sales Intelligence - Service Status"),
                      !.report = [count |-> configuredCount(Services),
                                  total |-> Len(Services),
                                  missing |-> {Services[k] : k \in {j \in 1..Len(Services) :
                                                                     ~isConfigured(Services[j])}}]])
    /\ UNCHANGED <<env, variant, gongClient, clayClient, zoomClient, interceptors,
                   jwtToken, tokenExpiry, now, issued, ticks, pureVars>>

Ready(i, tool, in) ==
    /\ inv[i].pc = "idle"
    /\ SchemaAccepts(tool, in.fields)
    /\ ArgCheck(tool, in)

\* an invocation whose handler reached the client of backend `target`
Started(tool, in, target) ==
    [IdleInv EXCEPT !.tool = tool, !.fmt = in.fmt, !.target = target,
                    !.extra = ~(in.fields \subseteq Declared(tool)),
                    !.lacking = ~(Required(tool) \subseteq in.fields)]

DataWait(tool, in, target) ==
    [Started(tool, in, target) EXCEPT !.pc = "dataWait", !.sent = now,
                                      !.dataReqs = 1, !.attempts = 1]

MutBuiltAfterTwo(handle) == handle > 1

MutNeverBuilt(handle) == handle < 0

\* `if (client) return client;`
Built(handle) == handle # 0

\* gongPost -> getClient() of gong-client.ts, then client.post
GongStart(i, tool, in) ==
    /\ tool \in GongTools
    /\ Ready(i, tool, in)
    /\ IF Built(gongClient)
       THEN Suspends(i, DataWait(tool, in, "Gong")) /\ UNCHANGED gongClient
       ELSE IF ~isGongConfigured
       THEN /\ Returns(i, Caught(RetOf(i, tool, in), ConfigError(GongConfigText), "Gong"))
            /\ UNCHANGED gongClient
       ELSE /\ gongClient' = gongClient + 1
            /\ Suspends(i, DataWait(tool, in, "Gong"))
    /\ UNCHANGED <<env, variant, clayClient, zoomClient, interceptors,
                   jwtToken, tokenExpiry, now, issued, ticks, pureVars>>

\* clayPost -> getClient() of clay-client.ts, then client.post
ClayStart(i, tool, in) ==
    /\ tool \in {"clay_enrich_person", "clay_enrich_company"}
    /\ Ready(i, tool, in)
    /\ IF Built(clayClient)
       THEN Suspends(i, DataWait(tool, in, "Clay")) /\ UNCHANGED clayClient
       ELSE IF ~isClayConfigured
       THEN /\ Returns(i, Caught(RetOf(i, tool, in), ConfigError(ClayConfigText), "Clay"))
            /\ UNCHANGED clayClient
       ELSE /\ clayClient' = clayClient + 1
            /\ Suspends(i, DataWait(tool, in, "Clay"))
    /\ UNCHANGED <<env, variant, gongClient, zoomClient, interceptors,
                   jwtToken, tokenExpiry, now, issued, ticks, pureVars>>

MutWebhookAuthFromClient == clayClient # 0

\* `...(apiKey ? { "x-clay-webhook-auth": apiKey } : {})`
WebhookAuth == Truthy(env["CLAY_API_KEY"])

\* clay_trigger_enrichment -> clayWebhookPost: axios.post(webhookUrl, ...)
WebhookStart(i, in) ==
    /\ Ready(i, "clay_trigger_enrichment", in)
    /\ Suspends(i, [Started("clay_trigger_enrichment", in, "Clay") EXCEPT
                       !.pc = "dataWait", !.sent = now, !.hookReqs = 1,
                       !.hookAuth = WebhookAuth, !.attempts = 1])
    /\ UNCHANGED <<env, variant, gongClient, clayClient, zoomClient, interceptors,
                   jwtToken, tokenExpiry, now, issued, ticks, pureVars>>

MutTokenFreshInclusive(token, expiry, t) == token # 0 /\ t <= expiry

\* getToken: `jwtToken && Date.now() < tokenExpiry`
TokenFresh(token, expiry, t) == token # 0 /\ t < expiry

MutCachedTwiceAsLong(token, t) == [token |-> token, expiry |-> t + 2 * TOKEN_REFRESH_MS]

MutCachedStaleExpiry(token, t) ==
    [token |-> token,
     expiry |-> IF tokenExpiry # 0 THEN tokenExpiry ELSE t + TOKEN_REFRESH_MS]

MutKeepCached(token, t) ==
    IF jwtToken # 0
    THEN [token |-> jwtToken, expiry |-> tokenExpiry]
    ELSE [token |-> token, expiry |-> t + TOKEN_REFRESH_MS]

\* authenticate: `jwtToken = response.data.jwt; tokenExpiry = Date.now() + 55 * 60 * 1000`
Cached(token, t) == [token |-> token, expiry |-> t + TOKEN_REFRESH_MS]

\* zoomInfoPost -> getClient(), then the request interceptor -> getToken():
\* a cached token that has not reached tokenExpiry is sent; otherwise
\* authenticate() checks the credentials and posts to /authenticate
ZoomStart(i, tool, in) ==
    /\ tool \in ZoomInfoTools
    /\ Ready(i, tool, in)
    /\ zoomClient' = IF Built(zoomClient) THEN zoomClient ELSE zoomClient + 1
    /\ interceptors' = IF Built(zoomClient) THEN interceptors ELSE interceptors + 1
    /\ LET check == [done |-> TRUE, token |-> jwtToken, expiry |-> tokenExpiry, at |-> now]
       IN IF TokenFresh(jwtToken, tokenExpiry, now)
          THEN Suspends(i, [DataWait(tool, in, "ZoomInfo") EXCEPT
                               !.bearer = jwtToken, !.check = check])
          ELSE IF ~isZoomInfoConfigured
          THEN Returns(i, Caught(RetOf(i, tool, in), ConfigError(ZoomInfoConfigText), "ZoomInfo"))
          ELSE Suspends(i, [Started(tool, in, "ZoomInfo") EXCEPT
                               !.pc = "authWait", !.sent = now, !.authReqs = 1,
                               !.check = check])
    /\ UNCHANGED <<env, variant, gongClient, clayClient,
                   jwtToken, tokenExpiry, now, issued, ticks, pureVars>>

\* the search tools of the fallback build try three endpoints in turn
HasFallback(tool) ==
    variant = "fallback" /\ tool \in {"linkedin_search_leads", "linkedin_search_companies"}
MutTwoEndpoints(tool) == IF HasFallback(tool) THEN 2 ELSE 1
MutRetryEverywhere(tool) == IF tool \in Tools THEN 3 ELSE 1

LastAttempt(tool) == IF HasFallback(tool) THEN 3 ELSE 1

\* linkedInGet: axios.get(url, { headers: getHeaders(), ... })
LinkedInStart(i, tool, in) ==
    /\ tool \in LinkedInTools
    /\ Ready(i, tool, in)
    /\ IF isLinkedInConfigured
       THEN Suspends(i, DataWait(tool, in, "LinkedIn"))
       ELSE Returns(i, Caught([RetOf(i, tool, in) EXCEPT !.attempts = LastAttempt(tool)],
                              ConfigError(ConfigTextOf("LinkedIn")), "LinkedIn"))
    /\ UNCHANGED <<env, variant, gongClient, clayClient, zoomClient, interceptors,
                   jwtToken, tokenExpiry, now, issued, ticks, pureVars>>

-----------------------------------------------------------------------------
(* What the network gives back                                             *)

\* the rejections axios raises for a request: a timeout, a refused or failed
\* connection, and HTTP statuses outside 2xx
\* the rejection of a request that got no answer within API_TIMEOUT
Timeout == Thrown(TRUE, TRUE, UNDEFINED, "ECONNABORTED", "timeout of 30000ms exceeded")

NetFailures ==
    { Timeout,
      Thrown(TRUE, TRUE, UNDEFINED, "ECONNREFUSED", "connect ECONNREFUSED"),
      Thrown(TRUE, TRUE, Response(404, Str("no such record"), UNDEFINED), "ERR_BAD_REQUEST",
             "Request failed with status code 404"),
      Thrown(TRUE, TRUE, Response(401, UNDEFINED, UNDEFINED), "ERR_BAD_REQUEST",
             "Request failed with status code 401"),
      Thrown(TRUE, TRUE, Response(429, UNDEFINED, UNDEFINED), "ERR_BAD_REQUEST",
             "Request failed with status code 429"),
      Thrown(TRUE, TRUE, Response(500, UNDEFINED, UNDEFINED), "ERR_BAD_RESPONSE",
             "Request failed with status code 500") }

Results == {"empty", "data"}

\* lengths of a rendering: at the limit and one past it
RenderSizes == {CHARACTER_LIMIT, CHARACTER_LIMIT + 1}

\* axios rejects a request still unanswered `timeout` ms after it was sent
Deadline(i) == inv[i].sent + API_TIMEOUT

-----------------------------------------------------------------------------
(* The handlers after an await                                             *)

\* authenticate(): the exchange answered with a token, minted between the
\* moment the request left and now; the interceptor then sends the request
AuthOk(i, at) ==
    /\ inv[i].pc = "authWait"
    /\ at \in {inv[i].sent, now}
    /\ issued' = Append(issued, at)
    /\ jwtToken' = Cached(Len(issued) + 1, now).token
    /\ tokenExpiry' = Cached(Len(issued) + 1, now).expiry
    /\ Suspends(i, [inv[i] EXCEPT !.pc = "dataWait", !.sent = now,
                                  !.bearer = Cached(Len(issued) + 1, now).token,
                                  !.dataReqs = 1, !.attempts = 1])
    /\ UNCHANGED <<env, variant, gongClient, clayClient, zoomClient, interceptors,
                   now, ticks, pureVars>>

\* the value of a variable of environment e as a template literal spells it
Secret(e, v) == IF e[v] = UNDEFINED THEN "undefined" ELSE e[v][1]

\* the request an invocation r has in flight at await `stage` under
\* environment e, as error.config of its rejection reports it: the body
\* { clientId, privateKey } of authenticate(), the Authorization header the
\* client of gong-client.ts or clay-client.ts was built with, the
\* x-clay-webhook-auth header of clayWebhookPost, the bearer token the
\* ZoomInfo interceptor or getHeaders() of LinkedIn set
Request(stage, r, e) ==
    IF stage = "authWait"
    THEN [authorization |-> "",
          data |-> "{clientId:" \o Secret(e, "ZOOMINFO_CLIENT_ID") \o ",privateKey:"
                   \o Secret(e, "ZOOMINFO_PRIVATE_KEY") \o "}"]
    ELSE [authorization |->
              CASE r.target = "Gong" ->
                       "Basic " \o Secret(e, "GONG_ACCESS_KEY") \o ":"
                       \o Secret(e, "GONG_ACCESS_KEY_SECRET")
                [] r.target = "ZoomInfo" -> "Bearer jwt" \o ToString(r.bearer)
                [] r.target = "Clay" /\ r.hookReqs > 0 ->
                       IF r.hookAuth THEN Secret(e, "CLAY_API_KEY") ELSE ""
                [] r.target = "Clay" -> "Bearer " \o Secret(e, "CLAY_API_KEY")
                [] OTHER -> "Bearer " \o Secret(e, "LINKEDIN_ACCESS_TOKEN"),
          data |-> "{" \o r.tool \o "}"]

\* the rejection f of the request of invocation i
Rejected(i, f) == [f EXCEPT !.config = Request(inv[i].pc, inv[i], env)]

\* authenticate(): axios.post rejected; the rejection leaves the interceptor,
\* the request is never sent and the handler's catch gets it
AuthFail(i, f) ==
    /\ inv[i].pc = "authWait"
    /\ f \in NetFailures
    /\ Returns(i, Caught(RetFrom(i), Rejected(i, f), "ZoomInfo"))
    /\ UNCHANGED <<env, variant, gongClient, clayClient, zoomClient, interceptors,
                   jwtToken, tokenExpiry, now, issued, ticks, pureVars>>

\* the request was answered 2xx: "nothing found", or the rendering in the
\* requested format
DataOk(i, result, n) ==
    /\ inv[i].pc = "dataWait"
    /\ result \in Results
    /\ n \in RenderSizes
    /\ LET tool == inv[i].tool
       IN IF HasEmptyCheck(tool) /\ result # "data"
          THEN Returns(i, [RetFrom(i) EXCEPT !.kind = "empty",
                                             !.text = Lit(EmptyText(tool))])
          ELSE Returns(i, [RetFrom(i) EXCEPT !.kind = "data",
                                             !.text = RenderedText(tool, inv[i].fmt, n)])
    /\ UNCHANGED <<env, variant, gongClient, clayClient, zoomClient, interceptors,
                   jwtToken, tokenExpiry, now, issued, ticks, pureVars>>

\* the request was rejected: the inner catch of a fallback search moves on to
\* the next endpoint, any other catch returns the error envelope
DataFail(i, f) ==
    /\ inv[i].pc = "dataWait"
    /\ f \in NetFailures
    /\ LET tool == inv[i].tool
       IN IF inv[i].attempts < LastAttempt(tool)
          THEN IF isLinkedInConfigured
               THEN Suspends(i, [inv[i] EXCEPT !.attempts = @ + 1, !.dataReqs = @ + 1,
                                               !.sent = now])
               ELSE Returns(i, Caught([RetFrom(i) EXCEPT !.attempts = LastAttempt(tool)],
                                      ConfigError(ConfigTextOf("LinkedIn")), "LinkedIn"))
          ELSE Returns(i, Caught(RetFrom(i), Rejected(i, f), BackendOf(tool)))
    /\ UNCHANGED <<env, variant, gongClient, clayClient, zoomClient, interceptors,
                   jwtToken, tokenExpiry, now, issued, ticks, pureVars>>

\* Date.now() advances; a request in flight is settled by its deadline
Tick(d) ==
    /\ ticks < MaxTicks
    /\ d \in {API_TIMEOUT, TOKEN_REFRESH_MS - API_TIMEOUT}
    /\ \A i \in Slots : inv[i].pc # "idle" => now + d <= Deadline(i)
    /\ now' = now + d
    /\ ticks' = ticks + 1
    /\ UNCHANGED <<env, variant, gongClient, clayClient, zoomClient, interceptors,
                   jwtToken, tokenExpiry, issued, inv, ret, pureVars>>

-----------------------------------------------------------------------------
(* The environment the process starts in                                   *)

OwnerOf(v) ==
    CASE v \in {"GONG_ACCESS_KEY", "GONG_ACCESS_KEY_SECRET"} -> "Gong"
      [] v \in {"ZOOMINFO_CLIENT_ID", "ZOOMINFO_PRIVATE_KEY"} -> "ZoomInfo"
      [] v = "CLAY_API_KEY" -> "Clay"
      [] OTHER -> "LinkedIn"

\* the variables in `set` hold a secret, every other one is `blank`
EnvWith(set, blank) == [v \in EnvVars |-> IF v \in set THEN Str("s3cr3t") ELSE blank]

VarsOf(backends) == {v \in EnvVars : OwnerOf(v) \in backends}

\* every backend configured; none, the variables unset or set to ""; and the
\* two key pairs with one half only
Envs ==
    {EnvWith(EnvVars, UNDEFINED), EnvWith({}, UNDEFINED), EnvWith({}, Str(""))}
    \cup {EnvWith(EnvVars \ {v}, UNDEFINED) :
              v \in {"GONG_ACCESS_KEY_SECRET", "ZOOMINFO_CLIENT_ID"}}

NoThrown == Thrown(FALSE, FALSE, UNDEFINED, "", "")

ErrIdle == thrown = NoThrown /\ service = "" /\ message = << >>
TruncIdle == text = << >> /\ limit = 0 /\ output = << >>

ModuleInit ==
    /\ gongClient = 0
    /\ clayClient = 0
    /\ zoomClient = 0
    /\ interceptors = 0
    /\ jwtToken = 0
    /\ tokenExpiry = 0
    /\ issued = << >>
    /\ now = 1
    /\ inv = [i \in Slots |-> IdleInv]
    /\ ret = NoRet
    /\ ticks = 0

-----------------------------------------------------------------------------
(* Spec: the server and its tools, one invocation at a time                *)

Init ==
    /\ env \in Envs
    /\ variant \in {"client", "fallback"}
    /\ ModuleInit
    /\ ErrIdle
    /\ TruncIdle

Next ==
    \/ \E tool \in Tools : \E in \in Inputs(tool) :
          \/ Reject(1, tool, in)
          \/ ArgFail(1, tool, in)
          \/ GongStart(1, tool, in)
          \/ ZoomStart(1, tool, in)
          \/ ClayStart(1, tool, in)
          \/ LinkedInStart(1, tool, in)
    \/ \E in \in Inputs(StatusTool) : StatusQuery(1, in)
    \/ \E in \in Inputs("clay_trigger_enrichment") : WebhookStart(1, in)
    \/ AuthOk(1, now)
    \/ \E f \in NetFailures : AuthFail(1, f) \/ DataFail(1, f)
    \/ \E result \in Results, n \in RenderSizes : DataOk(1, result, n)

Spec == Init /\ [][Next]_vars

-----------------------------------------------------------------------------
(* SpecStatus: the status query under every combination of credentials     *)

\* every variable unset, set to "" or set to a secret
AllEnvs == [EnvVars -> {UNDEFINED, Str(""), Str("s3cr3t")}]

InitStatus ==
    /\ env \in AllEnvs
    /\ variant \in {"client", "fallback"}
    /\ ModuleInit
    /\ ErrIdle
    /\ TruncIdle

NextStatus ==
    \E i \in Slots : \E in \in Inputs(StatusTool) : StatusQuery(i, in)

SpecStatus == InitStatus /\ [][NextStatus]_vars

-----------------------------------------------------------------------------
(* SpecJwt: interleaved ZoomInfo invocations while the clock advances      *)

InitJwt ==
    /\ env \in {EnvWith(VarsOf({"ZoomInfo"}), UNDEFINED), EnvWith({}, UNDEFINED),
                 EnvWith({"ZOOMINFO_CLIENT_ID"}, UNDEFINED)}
    /\ variant = "client"
    /\ ModuleInit
    /\ ErrIdle
    /\ TruncIdle

JwtFailures == {f \in NetFailures : f.code = "ECONNABORTED"}

JwtInputs(tool) == {in \in Inputs(tool) : in.fmt = "markdown"}

NextJwt ==
    \/ \E i \in Slots : \E tool \in {"zoominfo_get_tech_stack"} :
          \E in \in JwtInputs(tool) :
             \/ Reject(i, tool, in)
             \/ ArgFail(i, tool, in)
             \/ ZoomStart(i, tool, in)
    \/ \E i \in Slots : \E at \in {inv[i].sent, now} : AuthOk(i, at)
    \/ \E i \in Slots : \E f \in JwtFailures : AuthFail(i, f) \/ DataFail(i, f)
    \/ \E i \in Slots : DataOk(i, "data", CHARACTER_LIMIT)
    \/ \E d \in {API_TIMEOUT, TOKEN_REFRESH_MS - API_TIMEOUT} : Tick(d)

SpecJwt == InitJwt /\ [][NextJwt]_vars

-----------------------------------------------------------------------------
(* SpecClients: interleaved invocations of the three backends with clients *)

InitClients ==
    /\ env = EnvWith(EnvVars, UNDEFINED)
    /\ variant = "client"
    /\ ModuleInit
    /\ ErrIdle
    /\ TruncIdle

NextClients ==
    \/ \E i \in Slots : \E in \in JwtInputs("gong_get_call_stats") :
          GongStart(i, "gong_get_call_stats", in)
    \/ \E i \in Slots : \E in \in JwtInputs("clay_enrich_company") :
          ClayStart(i, "clay_enrich_company", in)
    \/ \E i \in Slots : \E in \in JwtInputs("zoominfo_get_tech_stack") :
          ZoomStart(i, "zoominfo_get_tech_stack", in)
    \/ \E i \in Slots : AuthOk(i, now)
    \/ \E i \in Slots : \E f \in JwtFailures : AuthFail(i, f) \/ DataFail(i, f)
    \/ \E i \in Slots : DataOk(i, "data", CHARACTER_LIMIT)

SpecClients == InitClients /\ [][NextClients]_vars

-----------------------------------------------------------------------------
(* SpecStatic: the Gong and Clay clients while the environment changes     *)

\* process.env is read when getClient() runs, not when the module loads; the
\* server never writes it, the process that embeds the server may
SetEnv(v, value) ==
    /\ v \in VarsOf({"Gong", "Clay"})
    /\ env[v] # value
    /\ env' = [env EXCEPT ![v] = value]
    /\ UNCHANGED <<variant, gongClient, clayClient, zoomClient, interceptors,
                   jwtToken, tokenExpiry, now, issued, inv, ret, ticks, pureVars>>

InitStatic ==
    /\ env \in {EnvWith(set, UNDEFINED) : set \in SUBSET VarsOf({"Gong", "Clay"})}
    /\ variant = "client"
    /\ ModuleInit
    /\ ErrIdle
    /\ TruncIdle

NextStatic ==
    \/ \E i \in Slots : \E in \in JwtInputs("gong_get_call_stats") :
          GongStart(i, "gong_get_call_stats", in)
    \/ \E i \in Slots : \E in \in JwtInputs("clay_enrich_company") :
          ClayStart(i, "clay_enrich_company", in)
    \/ \E i \in Slots : DataOk(i, "data", CHARACTER_LIMIT)
    \/ \E i \in Slots : \E in \in JwtInputs(StatusTool) : StatusQuery(i, in)
    \/ \E i \in Slots : \E in \in JwtInputs("clay_trigger_enrichment") : WebhookStart(i, in)
    \/ \E v \in VarsOf({"Gong", "Clay"}) : \E value \in {UNDEFINED, Str("s3cr3t")} : SetEnv(v, value)

SpecStatic == InitStatic /\ [][NextStatic]_vars

-----------------------------------------------------------------------------
(* SpecErr: handleApiError over the failures a catch can receive           *)

Statuses == {400, 401, 403, 404, 418, 429, 500, 501, 502, 503, 504, 599}

Bodies == {<<UNDEFINED, UNDEFINED>>, <<Str("quota"), UNDEFINED>>,
           <<UNDEFINED, Str("denied")>>, <<Str(""), Str("denied")>>}

Codes == {"ECONNABORTED", "ECONNREFUSED", "ERR_NETWORK", "ERR_BAD_RESPONSE"}

AxiosErrors ==
    {Thrown(TRUE, TRUE, r, c, "axios failure") :
        r \in {UNDEFINED} \cup {Response(st, b[1], b[2]) : st \in Statuses, b \in Bodies},
        c \in Codes}

ConfigErrors ==
    {ConfigError(t) : t \in {GongConfigText, ZoomInfoConfigText, ClayConfigText,
                             LinkedInClientConfigText, LinkedInFallbackConfigText}}

\* a plain Error, and a thrown value that is no Error at all
OtherThrown ==
    {Thrown(FALSE, TRUE, UNDEFINED, "", "Unexpected token < in JSON at position 0"),
     Thrown(FALSE, FALSE, UNDEFINED, "", "")}

Throwables == AxiosErrors \cup ConfigErrors \cup OtherThrown

InitErr ==
    /\ env = EnvWith({}, UNDEFINED)
    /\ variant = "client"
    /\ ModuleInit
    /\ TruncIdle
    /\ thrown \in Throwables
    /\ service \in Backends
    /\ message = << >>

Normalize ==
    /\ message = << >>
    /\ message' = handleApiError(thrown, service)
    /\ UNCHANGED <<dispatchVars, truncVars, thrown, service>>

NextErr == Normalize

SpecErr == InitErr /\ [][NextErr]_vars

-----------------------------------------------------------------------------
(* SpecTrunc: truncateResponse over texts around a limit                   *)

Limits == {10, TRUNCATE_RESERVE - 1, TRUNCATE_RESERVE, TRUNCATE_RESERVE + 100, CHARACTER_LIMIT}

\* a text `more` characters longer than the limit, in two parts when it is
\* longer than `split`
TextAround(lim, split, more) ==
    IF split = 0 \/ lim + more <= split
    THEN Rendered(lim + more)
    ELSE <<Piece(<<"heading">>, 0, split)>> \o Rendered(lim + more - split)

Texts(lim) ==
    {TextAround(lim, split, more) :
        split \in {0, 7, TRUNCATE_RESERVE - 50},
        more \in {0 - lim, 0 - 1, 0, 1, 2, 74, 75, 90, TRUNCATE_RESERVE, lim, 9 * lim}}

InitTrunc ==
    /\ env = EnvWith({}, UNDEFINED)
    /\ variant = "client"
    /\ ModuleInit
    /\ ErrIdle
    /\ limit \in Limits
    /\ text \in Texts(limit)
    /\ output = << >>

Truncate ==
    /\ output = << >>
    /\ output' = <<truncateResponse(text, limit)>>
    /\ UNCHANGED <<dispatchVars, errVars, text, limit>>

NextTrunc == Truncate

SpecTrunc == InitTrunc /\ [][NextTrunc]_vars

-----------------------------------------------------------------------------
(* Claims about the pure functions                                         *)

Normalized == message # << >>
Truncated == output # << >>

HasTimeoutCode == thrown.axios /\ thrown.code = "ECONNABORTED"
HasRefusedCode == thrown.axios /\ thrown.code = "ECONNREFUSED"
HasResponse == thrown.axios /\ thrown.response # UNDEFINED

StatusMessageOf(e, svc) ==
    StatusMessage(svc, e.response[1].status, VendorMessage(e.response[1]))

\* C10 as stated: handleApiError gives a timeout code priority over a
\* connection-refused code, and both priority over an HTTP response: a failure
\* with the timeout code yields the "timed out" message even when it carries a
\* response, one with the refused code (and no timeout code) the "service may
\* be down" message, and only the remaining failures with a response are
\* branched on their status.
C10_TimeoutFirst ==
    Normalized =>
        /\ HasTimeoutCode => message = TimeoutMessage(service)
        /\ HasRefusedCode => message = RefusedMessage(service)
        /\ (HasResponse /\ ~HasTimeoutCode /\ ~HasRefusedCode)
              => message = StatusMessageOf(thrown, service)

\* C10 as amended: handleApiError branches on the status of an HTTP response
\* first, whatever the failure's code; without a response the timeout code
\* yields the "timed out" message and the refused code the "service may be
\* down" message.  A failure with both the timeout code and a response yields
\* the status message, which never says "timed out" or "service may be down".
C10_ResponseFirst ==
    Normalized =>
        /\ HasResponse =>
              /\ message = StatusMessageOf(thrown, service)
              /\ ~Contains(message, "timed out")
              /\ ~Contains(message, "service may be down")
        /\ (~HasResponse /\ HasTimeoutCode) =>
              message = TimeoutMessage(service) /\ Contains(message, "timed out")
        /\ (~HasResponse /\ HasRefusedCode) =>
              message = RefusedMessage(service) /\ Contains(message, "service may be down")

\* a failure with the timeout code and a response of status 500 was classified
C10_Witness ==
    /\ Normalized
    /\ HasTimeoutCode
    /\ HasResponse
    /\ thrown.response[1].status = 500

-----------------------------------------------------------------------------
(* Claims about the dispatcher                                             *)

adapterVars == <<gongClient, clayClient, zoomClient, interceptors, jwtToken, tokenExpiry>>

Returned == ret.kind # "none"
\* the handler ran: the arguments passed the schema
Handled == Returned /\ ret.kind # "rejected"
NonError == Returned /\ ~ret.isError

NetCalls(r) == r.authReqs + r.dataReqs + r.hookReqs
DataCalls(r) == r.dataReqs + r.hookReqs

\* the text handleApiError gives a backend's missing-credential error
ConfigMessage(b) == handleApiError(ConfigError(ConfigTextOf(b)), b)

\* C1: an operation of a backend whose credentials are absent, invoked with
\* arguments its handler accepts, makes no outbound call (no request of it is
\* ever in flight) and returns an isError envelope with the backend's
\* "credentials not configured" text.
C1_NoCredentialsNoCall ==
    /\ \A i \in Slots :
          inv[i].pc # "idle" => isConfigured(BackendOf(inv[i].tool))
    /\ (Handled /\ ret.argsOk /\ ret.tool # StatusTool /\ ~isConfigured(BackendOf(ret.tool)))
          => /\ ret.isError
             /\ Contains(ret.msg, ConfigTextOf(BackendOf(ret.tool)))
             /\ NetCalls(ret) = 0

\* C2: arguments with an undeclared key, or without a required one, are
\* rejected with an error envelope before the handler runs: no request leaves
\* for them, and the step that rejects them changes no client handle and no
\* cached token.
C2_StrictRejection ==
    /\ [](/\ \A i \in Slots : ~inv[i].extra /\ ~inv[i].lacking
          /\ (Returned /\ ret.tool # StatusTool /\ (ret.extra \/ ret.lacking))
                => ret.kind = "rejected" /\ ret.isError /\ NetCalls(ret) = 0)
    /\ [][ret'.kind = "rejected" => UNCHANGED adapterVars]_vars

\* arguments with an undeclared key were rejected while a ZoomInfo token and a
\* Gong client were cached
C2_Witness ==
    /\ ret.kind = "rejected"
    /\ ret.extra
    /\ jwtToken # 0
    /\ gongClient # 0

C6_WithinLimit ==
    NonError => TextLen(ret.text) <= CHARACTER_LIMIT


RuntimeFailures == AxiosErrors \cup NetFailures \cup OtherThrown

\* C9: a missing-credential failure returns an error envelope carrying the
\* backend's "credentials not configured" text, and that message equals none
\* of the messages the same backend gives a transport, HTTP-status or other
\* runtime failure; no such failure returns the missing-credential message.
C9_ConfigDistinct ==
    (Returned /\ ret.handled # << >>) =>
        LET b == BackendOf(ret.tool)
        IN IF ret.handled[1] \in ConfigErrors
           THEN /\ ret.isError
                /\ Contains(ret.msg, ConfigTextOf(b))
                /\ \A t \in RuntimeFailures :
                      Flat(handleApiError(t, b)) # Flat(ret.msg)
           ELSE Flat(ret.msg) # Flat(ConfigMessage(b))

\* the LinkedIn credential check failed and its message was returned
C9_Witness ==
    /\ ret.kind = "error"
    /\ ret.tool \in LinkedInTools
    /\ ret.handled[1] \in ConfigErrors
    /\ Contains(ret.msg, ConfigTextOf("LinkedIn"))

-----------------------------------------------------------------------------
(* Claims about the ZoomInfo token cache                                   *)

Exchanged(i) == inv[i].pc = "authWait" /\ inv'[i].pc = "dataWait"

\* C3: a call whose token check finds a cached token strictly before its
\* expiry sends that token and makes no exchange; a call whose check finds
\* none, or happens at or after the expiry, makes one exchange, and when it
\* is answered the new token is cached, with expiry 55 minutes after that
\* moment, and sent.  The cache changes in no other step.
C3_TokenReuse ==
    /\ [](\A i \in Slots : inv[i].check.done =>
             IF inv[i].check.token # 0 /\ inv[i].check.at < inv[i].check.expiry
             THEN /\ inv[i].pc = "dataWait"
                  /\ inv[i].authReqs = 0
                  /\ inv[i].bearer = inv[i].check.token
             ELSE /\ inv[i].authReqs = 1
                  /\ inv[i].pc = "dataWait" => inv[i].bearer > inv[i].check.token)
    /\ [][\A i \in Slots : Exchanged(i) =>
             /\ Len(issued') = Len(issued) + 1
             /\ jwtToken' = Len(issued')
             /\ inv'[i].bearer = jwtToken'
             /\ tokenExpiry' = now + TOKEN_REFRESH_MS]_vars
    /\ [][(jwtToken' # jwtToken \/ tokenExpiry' # tokenExpiry)
             => \E i \in Slots : Exchanged(i)]_vars

\* a call checked the cache exactly at the expiry of the cached token, made
\* an exchange and sent the new token
C3_Witness ==
    \E i \in Slots :
        /\ inv[i].check.done
        /\ inv[i].check.token # 0
        /\ inv[i].check.at = inv[i].check.expiry
        /\ inv[i].pc = "dataWait"
        /\ inv[i].authReqs = 1
        /\ inv[i].bearer = jwtToken

\* C4: an invocation that finds no fresh token starts its own exchange even
\* while another's is in flight; every answered exchange overwrites the
\* cache; an invocation whose exchange and request succeed returns a
\* non-error envelope; and when the last of them returns, the cache holds a
\* token the vendor issued and an expiry still ahead.
C4_LastWriteWins ==
    /\ [][\A i \in Slots :
             (inv[i].pc = "idle" /\ inv'[i].pc # "idle"
                 /\ ~(jwtToken # 0 /\ now < tokenExpiry))
             => inv'[i].pc = "authWait" /\ inv'[i].authReqs = 1]_vars
    /\ [][Len(issued') > Len(issued)
             => jwtToken' = Len(issued') /\ tokenExpiry' = now + TOKEN_REFRESH_MS]_vars
    /\ []((ret.kind \in {"data", "empty"} /\ ret.authReqs = 1) => ~ret.isError)
    /\ [][((\E i \in Slots : /\ inv[i].pc = "dataWait"
                             /\ inv[i].authReqs = 1
                             /\ inv'[i].pc = "idle")
           /\ \A j \in Slots : inv'[j].pc = "idle")
             => /\ jwtToken' \in 1..Len(issued')
                /\ now' < tokenExpiry']_vars

\* two invocations found the same empty or expired cache at the same moment,
\* both exchanges were answered and both requests are in flight
C4_Witness ==
    /\ \A i \in Slots :
          /\ inv[i].pc = "dataWait"
          /\ inv[i].authReqs = 1
          /\ inv[i].check.at = inv[1].check.at
          /\ inv[i].check.token = inv[1].check.token
    /\ inv[1].bearer # inv[2].bearer
    /\ jwtToken \in {inv[1].bearer, inv[2].bearer}

-----------------------------------------------------------------------------
(* Further claims about handleApiError                                     *)

StatusOf(e) == e.response[1].status
ServerErrors == 500..599

\* C11 as stated: for every status from 500 to 599 and every backend name the
\* message carries the "temporarily unavailable" guidance and the numeral of
\* the status.
C11_Every5xxTransient ==
    (Normalized /\ HasResponse /\ StatusOf(thrown) \in ServerErrors) =>
        /\ Contains(message, "temporarily unavailable")
        /\ Contains(message, ToString(StatusOf(thrown)))

\* C11 as amended: for the statuses 500, 502 and 503 and every backend name
\* the message carries the "temporarily unavailable" guidance and the numeral
\* of the status; for every other status from 500 to 599 it is the generic
\* "API request failed with HTTP N" message, which carries the numeral and
\* the vendor's text but not the guidance.
C11_TransientStatuses ==
    (Normalized /\ HasResponse /\ StatusOf(thrown) \in ServerErrors) =>
        /\ message[1] = service
        /\ Contains(message, ToString(StatusOf(thrown)))
        /\ IF StatusOf(thrown) \in {500, 502, 503}
           THEN Contains(message, "temporarily unavailable")
           ELSE /\ ~Contains(message, "temporarily unavailable")
                /\ Contains(message, "API request failed with HTTP ")
                /\ message[Len(message)] = VendorMessage(thrown.response[1])

\* a response with status 504 was classified as a generic failure
C11_Witness ==
    /\ Normalized
    /\ HasResponse
    /\ StatusOf(thrown) = 504
    /\ Contains(message, "API request failed with HTTP ")
    /\ Contains(message, "504")

\* C12: for every backend name and every vendor body, status 401 gives a
\* message with the backend name and "Authentication failed", 400 one with
\* "Bad request", 403 "Permission denied", 404 "Resource not found" and 429
\* "Rate limit"; the 401, 403 and 429 messages are the same for every body.
C12_StatusGuidance ==
    (Normalized /\ HasResponse) =>
        LET st == StatusOf(thrown)
            phrase == CASE st = 400 -> "Bad request"
                        [] st = 401 -> "Authentication failed"
                        [] st = 403 -> "Permission denied"
                        [] st = 404 -> "Resource not found"
                        [] st = 429 -> "Rate limit"
                        [] OTHER -> ""
        IN st \in {400, 401, 403, 404, 429} =>
              /\ message[1] = service
              /\ Contains(message, phrase)
              /\ \A other \in {"Bad request", "Authentication failed", "Permission denied",
                               "Resource not found", "Rate limit"} \ {phrase} :
                    ~Contains(message, other)
              /\ st \in {401, 403, 429} => message = StatusMessage(service, st, "")

\* a 401 response whose body carries a vendor message was classified
C12_Witness ==
    /\ Normalized
    /\ HasResponse
    /\ StatusOf(thrown) = 401
    /\ VendorMessage(thrown.response[1]) # ""

\* C13: whatever was thrown, the message handleApiError returns begins with
\* the backend name it was given, followed by " Error: ".
C13_BackendPrefix ==
    Normalized =>
        /\ message[1] = service
        /\ message[2] = " Error: "

\* a thrown value that is neither an AxiosError nor an Error was classified
C13_Witness ==
    /\ Normalized
    /\ ~thrown.axios
    /\ ~thrown.isError
    /\ Contains(message, "An unexpected error occurred.")


-----------------------------------------------------------------------------
(* Credentials and error texts                                             *)

\* the environments that differ from e only in the value of the credentials
\* that are set
OtherEnvs(e) ==
    {[v \in EnvVars |-> IF Truthy(e[v]) THEN Str(s) ELSE e[v]] : s \in {"0th3r-k3y"}}

\* C14: the text of an error envelope is the text the same invocation returns
\* when the credentials that are set hold other values, and no fragment of it
\* is a credential value, the credential header or the body of the request
\* that failed.
C14_CredentialIndependent ==
    (Returned /\ ret.isError) =>
        /\ \A v \in EnvVars : Truthy(env[v]) => ~Contains(ret.msg, env[v][1])
        /\ ret.handled # << >> =>
              LET error == ret.handled[1]
              IN /\ error.config.authorization # ""
                      => ~Contains(ret.msg, error.config.authorization)
                 /\ error.config.data # "" => ~Contains(ret.msg, error.config.data)
                 /\ \A e \in OtherEnvs(env) :
                       handleApiError([error EXCEPT !.config = Request(ret.stage, ret, e)],
                                      BackendOf(ret.tool)) = ret.msg

\* the exchange that posted both ZoomInfo secrets was refused and the error
\* envelope was returned
C14_Witness ==
    /\ Returned
    /\ ret.isError
    /\ ret.stage = "authWait"
    /\ ret.handled # << >>
    /\ ret.handled[1].config.data = "{clientId:s3cr3t,privateKey:s3cr3t}"
    /\ ret.handled[1].code = "ECONNREFUSED"

-----------------------------------------------------------------------------
(* Timeouts                                                                *)

\* the step returns the timeout envelope of invocation i
TimeoutEnvelope(i) ==
    LET b == BackendOf(inv[i].tool)
    IN /\ ret'.slot = i
       /\ ret'.isError
       /\ ret'.kind = "error"
       /\ ret'.msg = TimeoutMessage(b)
       /\ ret'.msg[1] = b
       /\ Contains(ret'.msg, "timed out")
       /\ ret'.text = << >>
       /\ \A v \in EnvVars : Truthy(env[v]) => ~Contains(ret'.msg, env[v][1])

-----------------------------------------------------------------------------
(* Empty results                                                           *)

\* the tools that search for records or look one up; gong_get_call_stats
\* aggregates and clay_trigger_enrichment submits
SearchOrLookup ==
    {"gong_search_calls", "gong_get_transcript", "gong_get_call_details",
     "gong_search_calls_by_participant", "zoominfo_search_company",
     "zoominfo_search_contact", "zoominfo_get_org_chart", "zoominfo_get_tech_stack",
     "clay_enrich_person", "clay_enrich_company", "linkedin_search_leads",
     "linkedin_get_profile", "linkedin_search_companies"}

\* C16: when the request of a search or lookup tool is answered and the result
\* is empty, the handler returns an envelope that is no error and whose text
\* is the tool's "nothing found" sentence, in either response format; the
\* answer with an empty result returns an error envelope in no tool.
C16_EmptyIsNotError ==
    [][\A i \in Slots : \A n \in RenderSizes :
          DataOk(i, "empty", n) =>
             /\ ret'.slot = i
             /\ ~ret'.isError
             /\ ret'.kind # "error"
             /\ ret'.msg = << >>
             /\ ret'.handled = << >>
             /\ inv[i].tool \in SearchOrLookup =>
                   /\ ret'.kind = "empty"
                   /\ ret'.text = Lit(EmptyText(inv[i].tool))]_vars

\* a ZoomInfo company search that asked for JSON was answered with no
\* companies and returned the "nothing found" text
C16_Witness ==
    /\ Returned
    /\ ret.tool = "zoominfo_search_company"
    /\ ret.fmt = "json"
    /\ ret.kind = "empty"
    /\ ~ret.isError
    /\ ret.text = Lit("No companies found matching your criteria.")

-----------------------------------------------------------------------------
(* The status query                                                        *)

\* the backends all of whose variables hold a non-empty value
WithCredentials == {b \in Backends : \A v \in VarsOf({b}) : Truthy(env[v])}

\* C17: the status query returns an envelope that is no error, reporting as
\* connected the number of backends whose credentials are all present, out of
\* 4: 0 when none is present, 4 when all are; it throws for no combination of
\* credentials and changes no adapter's state.
C17_StatusCount ==
    /\ [](/\ ret.kind # "uncaught"
          /\ (Returned /\ ret.tool = StatusTool /\ ret.kind = "status") =>
                /\ ~ret.isError
                /\ ret.handled = << >>
                /\ ret.report.total = Cardinality(Backends)
                /\ ret.report.total = Len(<<"Gong", "ZoomInfo", "Clay", "LinkedIn">>)
                /\ ret.report.count = Cardinality(WithCredentials)
                /\ ret.report.missing = Backends \ WithCredentials
                /\ (\A v \in EnvVars : ~Truthy(env[v])) => ret.report.count = 0
                /\ (\A v \in EnvVars : Truthy(env[v]))
                      => ret.report.count = ret.report.total)
    /\ [][\A i \in Slots : \A in \in Inputs(StatusTool) :
             StatusQuery(i, in) => (ret'.kind = "status" /\ UNCHANGED adapterVars)]_vars

\* the status query reported Gong and LinkedIn connected and the other two not
C17_Witness ==
    /\ Returned
    /\ ret.tool = StatusTool
    /\ ret.kind = "status"
    /\ ret.report.count = 2
    /\ ret.report.missing = {"ZoomInfo", "Clay"}
    /\ env["ZOOMINFO_CLIENT_ID"] # UNDEFINED

-----------------------------------------------------------------------------
(* Isolation of the backends                                               *)

\* the module state of a backend's adapter: its client handle and, for
\* ZoomInfo, the interceptor, the cached token and its expiry
AdapterState(b) ==
    CASE b = "Gong" -> <<gongClient>>
      [] b = "ZoomInfo" -> <<zoomClient, interceptors, jwtToken, tokenExpiry, issued>>
      [] b = "Clay" -> <<clayClient>>
      [] OTHER -> << >>

\* invocation i takes the step, and its tool belongs to backend b
StepOf(i, b) ==
    /\ \/ inv'[i] # inv[i]
       \/ ret' # ret /\ ret'.slot = i
    /\ b = BackendOf(IF inv'[i].pc # "idle" THEN inv'[i].tool
                     ELSE IF inv[i].pc # "idle" THEN inv[i].tool ELSE ret'.tool)

\* C18: a step of a tool of one backend, whether it starts a request, fails
\* on a missing credential or returns a failure, leaves the adapter state of
\* every other backend as it was; and a tool returns the missing-credential
\* error only when a credential of its own backend is absent, whatever the
\* credentials of the other backends, with a message that names its own
\* backend.
C18_BackendsIsolated ==
    /\ [][\A i \in Slots : \A b \in Backends :
             StepOf(i, b) =>
                \A other \in Backends \ {b} : AdapterState(other)' = AdapterState(other)]_vars
    /\ [](\A i \in Slots :
             inv[i].pc # "idle" =>
                /\ inv[i].target = BackendOf(inv[i].tool)
                /\ inv[i].pc = "authWait" => inv[i].target = "ZoomInfo")
    /\ []((Returned /\ ret.handled # << >>) =>
             LET b == BackendOf(ret.tool)
             IN /\ ret.msg[1] = b
                /\ ret.handled[1] \in ConfigErrors =>
                      /\ b \notin WithCredentials
                      /\ ret.handled[1] = ConfigError(ConfigTextOf(b)))

\* with half of the Gong key pair missing, a Clay enrichment returned its data
C18_Witness ==
    /\ Returned
    /\ ret.tool = "clay_enrich_person"
    /\ ret.kind = "data"
    /\ "Gong" \notin WithCredentials
    /\ "Clay" \in WithCredentials
    /\ gongClient = 0

-----------------------------------------------------------------------------
(* The clients of the static-credential adapters                           *)

\* the handle of a static-credential adapter, as the number of clients built
Handle(b) == IF b = "Gong" THEN gongClient ELSE clayClient

\* invocation i enters getClient() of backend b in this step
CallsClient(i, b) ==
    /\ inv[i].pc = "idle"
    /\ \/ inv'[i].pc = "dataWait" /\ inv'[i].target = b /\ inv'[i].hookReqs = 0
       \/ /\ ret' # ret
          /\ ret'.slot = i
          /\ ret'.stage = "idle"
          /\ ret'.kind = "error"
          /\ BackendOf(ret'.tool) = b

\* a step that changes the handle of backend b builds its first client, in a
\* call made with the backend's variables present
BuildsOnce(b) ==
    Handle(b)' # Handle(b) =>
       /\ Handle(b) = 0
       /\ Handle(b)' = 1
       /\ b \in WithCredentials
       /\ \E i \in Slots : CallsClient(i, b)

\* a call reuses the client if there is one, and otherwise builds it or fails
\* according to the environment at the time of the call
ReusesOrReads(b) ==
    \A i \in Slots :
       CallsClient(i, b) =>
          IF Handle(b) = 1
          THEN /\ Handle(b)' = 1
               /\ inv'[i].pc = "dataWait"
               /\ inv'[i].dataReqs = 1
          ELSE IF b \in WithCredentials
          THEN /\ Handle(b)' = 1
               /\ inv'[i].pc = "dataWait"
               /\ inv'[i].dataReqs = 1
          ELSE /\ Handle(b)' = 0
               /\ ret'.isError
               /\ ret'.handled = <<ConfigError(ConfigTextOf(b))>>
               /\ DataCalls(ret') = 0

\* C19: the client of the Gong and of the Clay adapter is built at most once,
\* by a call made while every variable of the backend is present; a call made
\* before that while one is absent returns the missing-credential error and
\* builds nothing, and a later call with the variables present builds it;
\* once built, the client is never built again and every call sends its
\* request through it, whatever the environment holds by then.
C19_BuiltOnce ==
    /\ [](gongClient \in {0, 1} /\ clayClient \in {0, 1})
    /\ [][BuildsOnce("Gong") /\ BuildsOnce("Clay")]_vars
    /\ [][ReusesOrReads("Gong") /\ ReusesOrReads("Clay")]_vars

\* a Gong call goes out through the client built earlier although the
\* secret has since been removed from the environment
C19_Witness ==
    /\ gongClient = 1
    /\ env["GONG_ACCESS_KEY_SECRET"] = UNDEFINED
    /\ \E i \in Slots : inv[i].pc = "dataWait" /\ inv[i].target = "Gong" /\ inv[i].sent = now
    /\ ret = NoRet

-----------------------------------------------------------------------------
(* The token exchange of the ZoomInfo adapter                              *)

\* C20: a ZoomInfo call that finds no token, or one that has reached its
\* expiry, sends its data request only after its own exchange was answered,
\* with the token of that answer; when a secret is absent it returns the
\* missing-credential error having sent nothing; when the exchange fails it
\* returns that failure as the error envelope, sends no data request, and the
\* failing step leaves the cached token and expiry as they were.
C20_ExchangeFirst ==
    /\ [](\A i \in Slots :
             /\ inv[i].pc = "authWait" =>
                   /\ inv[i].check.done
                   /\ ~TokenFresh(inv[i].check.token, inv[i].check.expiry, inv[i].check.at)
                   /\ "ZoomInfo" \in WithCredentials
                   /\ inv[i].authReqs = 1
                   /\ inv[i].dataReqs = 0
             /\ (inv[i].pc = "dataWait" /\ inv[i].target = "ZoomInfo") =>
                   /\ inv[i].dataReqs = 1
                   /\ inv[i].bearer \in 1..Len(issued)
                   /\ IF TokenFresh(inv[i].check.token, inv[i].check.expiry, inv[i].check.at)
                      THEN inv[i].authReqs = 0 /\ inv[i].bearer = inv[i].check.token
                      ELSE inv[i].authReqs = 1 /\ inv[i].bearer > inv[i].check.token)
    /\ []((Returned /\ ret.tool \in ZoomInfoTools /\ ret.handled # << >>) =>
             /\ ret.handled[1] \in ConfigErrors =>
                   /\ "ZoomInfo" \notin WithCredentials
                   /\ ret.authReqs = 0
                   /\ ret.dataReqs = 0
                   /\ Contains(ret.msg, ZoomInfoConfigText)
             /\ ret.stage = "authWait" =>
                   /\ ret.isError
                   /\ ret.authReqs = 1
                   /\ ret.dataReqs = 0
                   /\ ret.handled[1].axios
                   /\ ret.handled[1].config.data
                         = Request("authWait", ret, env).data
                   /\ ret.msg = handleApiError(ret.handled[1], "ZoomInfo"))
    /\ [][\A i \in Slots : \A f \in NetFailures :
             AuthFail(i, f) =>
                /\ UNCHANGED <<jwtToken, tokenExpiry, issued>>
                /\ inv'[i].pc = "idle"
                /\ jwtToken = inv[i].check.token
                      => <<jwtToken', tokenExpiry'>> = <<inv[i].check.token, inv[i].check.expiry>>]_vars

\* the cached token had expired, the exchange for a new one timed out, and
\* the expired token is still the cached one
C20_Witness ==
    /\ Returned
    /\ ret.stage = "authWait"
    /\ ret.isError
    /\ Contains(ret.msg, "timed out")
    /\ jwtToken # 0
    /\ now >= tokenExpiry
    /\ Len(issued) = 1

-----------------------------------------------------------------------------
(* The status query and the adapters                                       *)

\* C21: every status query reports the backends whose credentials the
\* environment holds at the time of that query, whatever earlier queries
\* reported and whatever clients have been built; it sends no request, leaves
\* no invocation in flight, builds no client and leaves the cached token and
\* its expiry as they were.
C21_StatusAfresh ==
    [][\A i \in Slots : \A in \in Inputs(StatusTool) :
          StatusQuery(i, in) =>
             /\ ret'.kind = "status"
             /\ ret'.report.count = Cardinality(WithCredentials)
             /\ ret'.report.missing = Backends \ WithCredentials
             /\ NetCalls(ret') = 0
             /\ inv'[i].pc = "idle"
             /\ \A j \in Slots \ {i} : inv'[j] = inv[j]
             /\ UNCHANGED <<adapterVars, issued, env>>]_vars

\* the Gong client was built, a Gong variable was then removed from the
\* environment, and the status query reports Gong as not configured
C21_Witness ==
    /\ Returned
    /\ ret.kind = "status"
    /\ gongClient = 1
    /\ "Gong" \in ret.report.missing
    /\ env["GONG_ACCESS_KEY"] = UNDEFINED

-----------------------------------------------------------------------------
(* Further claims about truncateResponse                                   *)

-----------------------------------------------------------------------------
(* What reaches handleApiError                                             *)

\* C23 as stated: neither a failed input validation nor a missing-credential
\* error is ever the argument of handleApiError.
C23_NeverNormalized ==
    Returned =>
        /\ ret.kind \in {"rejected", "argcheck"} => ret.handled = << >>
        /\ ret.handled # << >> => ret.handled[1] \notin ConfigErrors

\* C23: an input the schema or the handler's own check refuses is answered
\* without handleApiError; a missing-credential error is thrown inside the
\* handler's try block, is the argument of handleApiError like any other
\* failure, and returns as the backend name, " Error: " and the missing-
\* credential text; every tool but the status query and the webhook tool does
\* so when its backend lacks a credential.
C23_ConfigNormalized ==
    Returned =>
        LET b == BackendOf(ret.tool)
        IN /\ ret.kind \in {"rejected", "argcheck"} => ret.handled = << >>
           /\ ret.kind = "argcheck" => (ret.isError /\ ret.msg = <<ArgCheckText(ret.tool)>>)
           /\ (ret.handled # << >> /\ ret.handled[1] \in ConfigErrors) =>
                 /\ ret.isError
                 /\ NetCalls(ret) = 0
                 /\ ret.msg = <<b, " Error: ", ConfigTextOf(b)>>
           /\ (/\ ret.kind \notin {"rejected", "argcheck", "status"}
               /\ ret.tool # "clay_trigger_enrichment"
               /\ b \notin WithCredentials)
                 => ret.handled = <<ConfigError(ConfigTextOf(b))>>

\* the Gong missing-credential error went through handleApiError
C23_Witness ==
    /\ Returned
    /\ ret.tool = "gong_get_transcript"
    /\ ret.handled = <<ConfigError(GongConfigText)>>
    /\ ret.msg = <<"Gong", " Error: ", GongConfigText>>

-----------------------------------------------------------------------------
(* The Clay webhook                                                        *)

-----------------------------------------------------------------------------
(* The status query against the adapters                                   *)

\* C25: with the environment constant, an operation whose arguments pass the
\* schema and the handler's check returns the missing-credential envelope
\* exactly when isConfigured() of its backend is false, a variable set to ""
\* counting as absent; and no request of a backend that is not configured is
\* ever in flight.
C25_StatusAgreesWithAdapters ==
    /\ \A i \in Slots : inv[i].pc # "idle" => isConfigured(BackendOf(inv[i].tool))
    /\ (Returned /\ ret.kind \notin {"rejected", "argcheck", "status"}) =>
          LET b == BackendOf(ret.tool)
          IN (ret.isError /\ ret.handled = <<ConfigError(ConfigTextOf(b))>>) <=> ~isConfigured(b)

\* C26: at the limit CHARACTER_LIMIT a second pass of truncateResponse over
\* its own result returns that result unchanged, for texts below, at and
\* above the limit.
C26_IdempotentAtCap ==
    (Truncated /\ limit = CHARACTER_LIMIT) =>
        /\ TextLen(output[1]) <= CHARACTER_LIMIT
        /\ truncateResponse(output[1], CHARACTER_LIMIT) = output[1]

\* a text of ten times the limit was cut and the notice appended
C26_Witness ==
    /\ Truncated
    /\ limit = CHARACTER_LIMIT
    /\ TextLen(text) = 10 * CHARACTER_LIMIT
    /\ output[1] # text
    /\ ContainsPiece(output[1], Numeral(10 * CHARACTER_LIMIT))

-----------------------------------------------------------------------------
(* The cached token under interleaved refreshes                            *)

\* C27: the cached token and its expiry change only together, in the step in
\* which an exchange is answered, and the expiry is always the one computed
\* when the cached token was received; every ZoomInfo request in flight
\* carries a token the vendor issued, which is the cached token its own check
\* found fresh or else the token its own exchange returned.
C27_TokenPairAtomic ==
    /\ [](/\ jwtToken = 0 <=> tokenExpiry = 0
          /\ jwtToken # 0 =>
                /\ jwtToken \in 1..Len(issued)
                /\ tokenExpiry >= issued[jwtToken] + TOKEN_REFRESH_MS
                /\ tokenExpiry <= issued[jwtToken] + API_TIMEOUT + TOKEN_REFRESH_MS)
    /\ [][(jwtToken' # jwtToken \/ tokenExpiry' # tokenExpiry) =>
             /\ jwtToken' = Len(issued) + 1
             /\ tokenExpiry' = now + TOKEN_REFRESH_MS
             /\ \E i \in Slots : Exchanged(i) /\ inv'[i].bearer = jwtToken']_vars
    /\ [](\A i \in Slots :
             (inv[i].pc = "dataWait" /\ inv[i].target = "ZoomInfo") =>
                /\ inv[i].bearer \in 1..Len(issued)
                /\ \/ /\ inv[i].authReqs = 0
                      /\ inv[i].bearer = inv[i].check.token
                      /\ inv[i].check.at < inv[i].check.expiry
                   \/ /\ inv[i].authReqs = 1
                      /\ inv[i].bearer > inv[i].check.token)

\* the first token expired, a second exchange was answered, and the request
\* in flight carries the second token, cached with its own expiry
C27_Witness ==
    /\ Len(issued) = 2
    /\ jwtToken = 2
    /\ issued[2] >= issued[1] + TOKEN_REFRESH_MS
    /\ tokenExpiry >= issued[2] + TOKEN_REFRESH_MS
    /\ \E i \in Slots : inv[i].pc = "dataWait" /\ inv[i].bearer = 2 /\ inv[i].check.token = 1

\* C28: whenever the reuse check passes, now is earlier than the moment the
\* vendor issued the cached token plus 60 minutes, an exchange taking at most
\* API_TIMEOUT from leaving to being answered; so every request sent with a
\* reused token left while the token was valid, also when exchanges were
\* answered out of order.
C28_NoReuseAfterExpiry ==
    /\ TokenFresh(jwtToken, tokenExpiry, now) => now < issued[jwtToken] + JWT_VALIDITY_MS
    /\ \A i \in Slots :
          (inv[i].pc = "dataWait" /\ inv[i].target = "ZoomInfo") =>
             /\ inv[i].sent < issued[inv[i].bearer] + JWT_VALIDITY_MS
             /\ inv[i].authReqs = 0
                   => /\ TokenFresh(inv[i].check.token, inv[i].check.expiry, inv[i].check.at)
                      /\ inv[i].check.at < issued[inv[i].check.token] + JWT_VALIDITY_MS

\* a request reuses a token 55 minutes after its issue: the exchange took the
\* whole timeout, so the cached expiry lies 30 seconds later
C28_Witness ==
    \E i \in Slots :
        /\ inv[i].pc = "dataWait"
        /\ inv[i].authReqs = 0
        /\ inv[i].bearer = jwtToken
        /\ inv[i].check.at >= issued[jwtToken] + TOKEN_REFRESH_MS
        /\ inv[i].check.at < tokenExpiry

-----------------------------------------------------------------------------
(* Client instances under interleaved invocations                          *)

\* C29: however invocations interleave, each of the Gong, Clay and ZoomInfo
\* adapters builds at most one client, in the step of the first call that
\* reaches it; the ZoomInfo interceptor is registered in that same step and
\* never again; and every request in flight goes through the one client of
\* its backend.
C29_OneClientPerBackend ==
    /\ [](/\ gongClient \in {0, 1}
          /\ clayClient \in {0, 1}
          /\ zoomClient \in {0, 1}
          /\ interceptors = zoomClient
          /\ \A i \in Slots :
                inv[i].pc # "idle" =>
                   CASE inv[i].target = "Gong" -> gongClient = 1
                     [] inv[i].target = "ZoomInfo" -> zoomClient = 1 /\ interceptors = 1
                     [] inv[i].target = "Clay" -> inv[i].hookReqs = 0 => clayClient = 1
                     [] OTHER -> TRUE)
    /\ [][/\ gongClient' # gongClient => (gongClient = 0 /\ gongClient' = 1)
          /\ clayClient' # clayClient => (clayClient = 0 /\ clayClient' = 1)
          /\ (zoomClient' # zoomClient \/ interceptors' # interceptors)
                => (zoomClient = 0 /\ zoomClient' = 1 /\ interceptors = 0 /\ interceptors' = 1)]_vars

\* two ZoomInfo invocations are in flight at once, after Gong and Clay calls,
\* and each adapter has built one client
C29_Witness ==
    /\ \A i \in Slots : inv[i].pc # "idle" /\ inv[i].target = "ZoomInfo"
    /\ inv[1].pc = "authWait"
    /\ inv[2].pc = "dataWait"
    /\ zoomClient = 1
    /\ interceptors = 1
    /\ gongClient = 1
    /\ clayClient = 1

-----------------------------------------------------------------------------
(* The three endpoints of the fallback LinkedIn searches                   *)

\* C30 as stated: a search tool of the fallback LinkedIn build returns an
\* error envelope only after all three of its attempts have failed.
C30_ErrorOnlyAfterThree ==
    (Handled /\ HasFallback(ret.tool) /\ ret.isError) => ret.attempts = 3

\* C30 as amended: in a search tool of the fallback LinkedIn build, an
\* invocation that names a search criterion has one request in flight at a
\* time and sends at most three; any failure of the first or the second
\* request (a timeout, 401 and 429 included) returns nothing and sends the
\* next request; a failure of the third returns the error envelope whose
\* message is that of this third failure; an envelope after fewer than three
\* attempts is never an error; and without LINKEDIN_ACCESS_TOKEN the three
\* attempts fail with no request sent.  An invocation that names no criterion
\* returns the error envelope of the handler's own check before any attempt.
C30_ThreeEndpointsInTurn ==
    /\ [](\A i \in Slots :
             (inv[i].pc = "dataWait" /\ HasFallback(inv[i].tool)) =>
                /\ inv[i].attempts \in 1..3
                /\ inv[i].dataReqs = inv[i].attempts
                /\ NetCalls(inv[i]) = inv[i].attempts)
    /\ []((Handled /\ HasFallback(ret.tool)) =>
             /\ ret.isError <=> ret.kind \in {"error", "argcheck"}
             /\ ret.kind = "argcheck" => ret.attempts = 0 /\ NetCalls(ret) = 0
             /\ ret.kind \in {"data", "empty"} =>
                   ret.attempts \in 1..3 /\ NetCalls(ret) = ret.attempts
             /\ ret.kind = "error" =>
                   /\ ret.attempts = 3
                   /\ IF isLinkedInConfigured
                      THEN NetCalls(ret) = 3 /\ {[ret.handled[1] EXCEPT !.config = NoConfig]} \subseteq NetFailures
                      ELSE NetCalls(ret) = 0 /\ ret.msg = ConfigMessage("LinkedIn"))
    /\ [][\A f \in NetFailures :
            (DataFail(1, f) /\ HasFallback(inv[1].tool)) =>
               IF inv[1].attempts < 3
               THEN /\ ret' = NoRet
                    /\ inv'[1] = [inv[1] EXCEPT !.attempts = @ + 1, !.dataReqs = @ + 1]
               ELSE /\ ret'.isError
                    /\ ret'.msg = handleApiError(f, "LinkedIn")
                    /\ ret'.attempts = 3
                    /\ NetCalls(ret') = 3
                    /\ inv'[1].pc = "idle"]_vars

\* the third endpoint's request was answered 429 and the envelope says so
C30_Witness ==
    /\ Handled
    /\ HasFallback(ret.tool)
    /\ ret.isError
    /\ ret.dataReqs = 3
    /\ ret.handled[1].response # UNDEFINED
    /\ StatusOf(ret.handled[1]) = 429
    /\ ret.msg = handleApiError(ret.handled[1], "LinkedIn")

=============================================================================
